---- MODULE Spec2Model ----
(***************************************************************************)
(* Model of run_graphrag_queries.py: main() enumerates the *.json files of *)
(* the queries directory and process_query_file() loads each one, writes a *)
(* backup, runs the external tool twice per query entry, appends the two   *)
(* answers and rewrites the file after every query.                        *)
(*                                                                         *)
(* A file on disk is a record [kind, fmt, doc]: kind says whether the text *)
(* is valid JSON, fmt is its layout (json.dump(indent=2) always produces   *)
(* "indent2"), doc is the value json.load returns.  Two files are          *)
(* byte-identical exactly when the records are equal.                      *)
(* Strings that the claims inspect (answers) are sequences of tokens.      *)
(***************************************************************************)
EXTENDS Integers, Sequences, FiniteSets, TLC

\* ------------------------------------------------------------- bounds
MaxFiles == 2

MaxQueries == 2

MaxRuns == 2

\* ------------------------------------------------------------- values
root_dir == "rootdir"

NoDoc == [keys |-> {}, queries |-> <<>>]

Absent == [kind |-> "absent", fmt |-> "none", doc |-> NoDoc]

\* what open(path, 'w') leaves behind: an existing, empty file
EmptyFile == [kind |-> "empty", fmt |-> "none", doc |-> NoDoc]

\* a file whose write stopped half way
PartialFile == [kind |-> "partial", fmt |-> "none", doc |-> NoDoc]

\* a file that is not JSON at all
Garbage == [kind |-> "garbage", fmt |-> "none", doc |-> NoDoc]

\* a backup left over by somebody else before the run
StaleBak == [kind |-> "json", fmt |-> "compact", doc |-> [keys |-> {"stale"}, queries |-> <<>>]]

OldRecord == [mode |-> "baseline", answer |-> <<"old">>]

QueryTextOf(i) == IF i % 2 = 1 THEN "qa" ELSE "qb"

PriorOf(i) == IF i % 2 = 1 THEN <<OldRecord>> ELSE <<>>

GoodEntry(i) == [keys |-> {"query", "responses"}, query |-> QueryTextOf(i), responses |-> PriorOf(i)]

NoQueryEntry(i) == [keys |-> {"responses"}, query |-> "", responses |-> PriorOf(i)]

NoResponsesEntry(i) == [keys |-> {"query"}, query |-> QueryTextOf(i), responses |-> <<>>]

\* documents with k entries: all entries complete, or exactly one entry lacking a key
DocsOfLen(k) ==
  {[keys |-> {"queries"}, queries |-> [i \in 1..k |-> GoodEntry(i)]]}
  \cup {[keys |-> {"queries"},
         queries |-> [i \in 1..k |-> IF i = j THEN (IF nq THEN NoQueryEntry(i) ELSE NoResponsesEntry(i))
                                              ELSE GoodEntry(i)]]
        : j \in 1..k, nq \in BOOLEAN}

InitDocs == {NoDoc} \cup UNION {DocsOfLen(k) : k \in 0..MaxQueries}

Formats == {"indent2", "compact"}

InitContents == {Garbage} \cup {[kind |-> "json", fmt |-> fmt, doc |-> d] : fmt \in Formats, d \in InitDocs}

RECURSIVE SumLen(_, _)
SumLen(d, n) == IF n = 0 THEN 0 ELSE Len(d[n].doc.queries) + SumLen(d, n - 1)

\* ------------------------------------------------------------- pure functions
IsSpace(t) == t \in {" ", "\n"}

RECURSIVE LStrip(_)
LStrip(s) == IF s # <<>> /\ IsSpace(Head(s)) THEN LStrip(Tail(s)) ELSE s

RECURSIVE RStrip(_)
RStrip(s) == IF s # <<>> /\ IsSpace(s[Len(s)]) THEN RStrip(SubSeq(s, 1, Len(s) - 1)) ELSE s

Strip(s) == RStrip(LStrip(s))

\* variant: the method argument is not passed on
CmdAlwaysLocal(query, method, root) == <<"graphrag", "query", "--root", root, "--method", "local", "--query", query>>

Cmd(query, method, root) == <<"graphrag", "query", "--root", root, "--method", method, "--query", query>>

RcStr(rc) == IF rc = 1 THEN "1" ELSE IF rc = 2 THEN "2" ELSE "n"

\* str(CalledProcessError)
CalledProcessErrorStr(cmd, rc) == <<"Command ">> \o cmd \o <<" returned non-zero exit status ", RcStr(rc), ".">>

\* variant: no try/except around subprocess.run
run_graphrag_query_unguarded(query, method, root, rc, stdout) ==
  IF rc = 0
  THEN [raised |-> FALSE, value |-> Strip(stdout)]
  ELSE [raised |-> TRUE, value |-> <<>>]

\* run_graphrag_query: rc and stdout are what the external tool produced
run_graphrag_query(query, method, root, rc, stdout) ==
  IF rc = 0
  THEN [raised |-> FALSE, value |-> Strip(stdout)]
  ELSE [raised |-> FALSE, value |-> <<"Error", ": ">> \o CalledProcessErrorStr(Cmd(query, method, root), rc)]

\* variant: a file that does not parse is read as an empty document
json_load_lenient(c) == [raised |-> FALSE, value |-> c.doc]

json_load(c) == [raised |-> c.kind # "json", value |-> c.doc]

json_dump(d) == [kind |-> "json", fmt |-> "indent2", doc |-> d]

\* variant: the two records replace the list
AppendResponsesReplace(d, i, la, ga) ==
  [d EXCEPT !.queries[i].responses =
     <<[mode |-> "graphrag_local", answer |-> la], [mode |-> "graphrag_global", answer |-> ga]>>]

\* variant: only the local record is appended
AppendResponsesLocalOnly(d, i, la, ga) ==
  [d EXCEPT !.queries[i].responses = @ \o <<[mode |-> "graphrag_local", answer |-> la]>>]

AppendResponses(d, i, la, ga) ==
  [d EXCEPT !.queries[i].responses =
     @ \o <<[mode |-> "graphrag_local", answer |-> la], [mode |-> "graphrag_global", answer |-> ga]>>]

ExitCodes == {0, 1}

Stdouts == {<<" ", "ans", "\n">>}

\* ------------------------------------------------------------- state
VARIABLES
  hasRoot,          \* len(sys.argv) >= 2
  nfiles,           \* len(query_files); the files are numbered in glob order
  disk,             \* content of <file>.json, per file
  bak,              \* content of <file>.json.bak, per file
  state,            \* "running", "exited", "crashed" (uncaught exception), "interrupted"
  status,           \* process exit status, -1 while running
  pc,               \* the statement about to execute
  fi,               \* index of json_file in query_files
  qi,               \* the local `processed`: index of query_item in data['queries']
  data,             \* the loaded document
  query_text,
  local_response,
  global_response,
  log,              \* the subprocess.run calls made so far, in order
  failure,          \* the uncaught exception, if any
  pre,              \* disk when the run started
  prebak,           \* bak when the run started
  orig,             \* disk when the first run started
  runs              \* number of runs started

locals == <<fi, qi, data, query_text, local_response, global_response>>

args == <<hasRoot, nfiles>>

history == <<pre, prebak, orig, runs>>

vars == <<hasRoot, nfiles, disk, bak, state, status, pc, fi, qi, data, query_text,
          local_response, global_response, log, failure, pre, prebak, orig, runs>>

NoFailure == [kind |-> "none", file |-> 0, query |-> 0]

Init ==
  /\ hasRoot \in BOOLEAN
  /\ nfiles \in 0..MaxFiles
  /\ disk \in [1..nfiles -> InitContents]
  /\ SumLen(disk, nfiles) <= MaxQueries
  /\ \E b \in {Absent, StaleBak} : bak = [f \in 1..nfiles |-> b]
  /\ state = "running"
  /\ status = -1
  /\ pc = "main"
  /\ fi = 0
  /\ qi = 0
  /\ data = NoDoc
  /\ query_text = ""
  /\ local_response = <<>>
  /\ global_response = <<>>
  /\ log = <<>>
  /\ failure = NoFailure
  /\ pre = disk
  /\ prebak = bak
  /\ orig = disk
  /\ runs = 1

\* an exception nobody catches: the interpreter prints the traceback and exits with 1
Raise(kind, q) ==
  /\ state' = "crashed"
  /\ status' = 1
  /\ failure' = [kind |-> kind, file |-> fi, query |-> q]

\* sys.exit(code)
Exit(code) ==
  /\ state' = "exited"
  /\ status' = code
  /\ failure' = failure

Continue(next) ==
  /\ pc' = next
  /\ UNCHANGED <<state, status, failure>>

\* variant: main without the argument and file checks
MainUnchecked ==
  /\ state = "running" /\ pc = "main"
  /\ Continue("for_file")
  /\ UNCHANGED <<args, disk, bak, locals, log, history>>

\* main, lines 78-98
Main ==
  /\ state = "running" /\ pc = "main"
  /\ IF ~hasRoot \/ nfiles = 0
     THEN Exit(1) /\ pc' = pc
     ELSE Continue("for_file")
  /\ UNCHANGED <<args, disk, bak, locals, log, history>>

\* main, lines 101-104: the next file, or the end of the run
NextFile ==
  /\ state = "running" /\ pc = "for_file"
  /\ IF fi < nfiles
     THEN /\ fi' = fi + 1
          /\ Continue("load")
     ELSE /\ fi' = fi
          /\ Exit(0) /\ pc' = pc
  /\ qi' = 0 /\ data' = NoDoc /\ query_text' = ""
  /\ local_response' = <<>> /\ global_response' = <<>>
  /\ UNCHANGED <<args, disk, bak, log, history>>

\* process_query_file, lines 29-30
Load ==
  /\ state = "running" /\ pc = "load"
  /\ LET r == json_load(disk[fi]) IN
       IF r.raised
       THEN /\ Raise("JSONDecodeError", qi) /\ pc' = pc
            /\ data' = data
       ELSE /\ Continue("bak_open")
            /\ data' = r.value
  /\ UNCHANGED <<args, disk, bak, fi, qi, query_text, local_response, global_response, log, history>>

\* process_query_file, lines 33-34: open(backup_file, 'w') truncates or creates the backup
BakOpen ==
  /\ state = "running" /\ pc = "bak_open"
  /\ bak' = [bak EXCEPT ![fi] = EmptyFile]
  /\ Continue("bak_dump")
  /\ UNCHANGED <<args, disk, locals, log, history>>

\* variant: the backup is opened but the document is not written to it
BakDumpSkipped ==
  /\ state = "running" /\ pc = "bak_dump"
  /\ Continue("count")
  /\ UNCHANGED <<args, disk, bak, locals, log, history>>

\* process_query_file, line 35
BakDump ==
  /\ state = "running" /\ pc = "bak_dump"
  /\ bak' = [bak EXCEPT ![fi] = json_dump(data)]
  /\ Continue("count")
  /\ UNCHANGED <<args, disk, locals, log, history>>

\* process_query_file, lines 38-39
CountQueries ==
  /\ state = "running" /\ pc = "count"
  /\ IF "queries" \in data.keys
     THEN Continue("for_query")
     ELSE Raise("KeyError", 0) /\ pc' = pc
  /\ qi' = 0
  /\ UNCHANGED <<args, disk, bak, fi, data, query_text, local_response, global_response, log, history>>

\* process_query_file, lines 42-43 and 75-76: the next query_item, or the end of the file
NextQuery ==
  /\ state = "running" /\ pc = "for_query"
  /\ IF qi < Len(data.queries)
     THEN /\ qi' = qi + 1
          /\ Continue("get_query")
     ELSE /\ qi' = qi
          /\ Continue("for_file")
  /\ UNCHANGED <<args, disk, bak, fi, data, query_text, local_response, global_response, log, history>>

\* process_query_file, lines 44-45
GetQuery ==
  /\ state = "running" /\ pc = "get_query"
  /\ IF "query" \in data.queries[qi].keys
     THEN /\ query_text' = data.queries[qi].query
          /\ Continue("local")
     ELSE /\ query_text' = query_text
          /\ Raise("KeyError", qi) /\ pc' = pc
  /\ UNCHANGED <<args, disk, bak, fi, qi, data, local_response, global_response, log, history>>

Logged(method, rc) == [file |-> fi, idx |-> qi, cmd |-> Cmd(query_text, method, root_dir), rc |-> rc]

\* process_query_file, line 49
RunLocal ==
  /\ state = "running" /\ pc = "local"
  /\ \E rc \in ExitCodes, out \in Stdouts :
       LET r == run_graphrag_query(query_text, "local", root_dir, rc, out) IN
         /\ log' = Append(log, Logged("local", rc))
         /\ IF r.raised
            THEN /\ Raise("CalledProcessError", qi) /\ pc' = pc
                 /\ local_response' = local_response
            ELSE /\ Continue("global")
                 /\ local_response' = r.value
  /\ UNCHANGED <<args, disk, bak, fi, qi, data, query_text, global_response, history>>

\* process_query_file, line 53
RunGlobal ==
  /\ state = "running" /\ pc = "global"
  /\ \E rc \in ExitCodes, out \in Stdouts :
       LET r == run_graphrag_query(query_text, "global", root_dir, rc, out) IN
         /\ log' = Append(log, Logged("global", rc))
         /\ IF r.raised
            THEN /\ Raise("CalledProcessError", qi) /\ pc' = pc
                 /\ global_response' = global_response
            ELSE /\ Continue("append")
                 /\ global_response' = r.value
  /\ UNCHANGED <<args, disk, bak, fi, qi, data, query_text, local_response, history>>

\* process_query_file, lines 56-64
AppendBoth ==
  /\ state = "running" /\ pc = "append"
  /\ IF "responses" \in data.queries[qi].keys
     THEN /\ data' = AppendResponses(data, qi, local_response, global_response)
          /\ Continue("save_open")
     ELSE /\ data' = data
          /\ Raise("KeyError", qi) /\ pc' = pc
  /\ UNCHANGED <<args, disk, bak, fi, qi, query_text, local_response, global_response, log, history>>

\* process_query_file, line 67: open(json_file, 'w') truncates the original
SaveOpen ==
  /\ state = "running" /\ pc = "save_open"
  /\ disk' = [disk EXCEPT ![fi] = EmptyFile]
  /\ Continue("save_dump")
  /\ UNCHANGED <<args, bak, locals, log, history>>

\* process_query_file, lines 68-73
SaveDump ==
  /\ state = "running" /\ pc = "save_dump"
  /\ disk' = [disk EXCEPT ![fi] = json_dump(data)]
  /\ Continue("for_query")
  /\ UNCHANGED <<args, bak, locals, log, history>>

IoPoints == {"load", "bak_open", "bak_dump", "save_open", "save_dump"}

Torn == {EmptyFile, PartialFile}

\* an OSError from open() or from the write inside json.dump (lines 29, 34, 35, 67, 68)
FsError ==
  /\ state = "running" /\ pc \in IoPoints
  /\ \E t \in Torn :
       /\ bak' = IF pc = "bak_dump" THEN [bak EXCEPT ![fi] = t] ELSE bak
       /\ disk' = IF pc = "save_dump" THEN [disk EXCEPT ![fi] = t] ELSE disk
  /\ Raise("OSError", qi) /\ pc' = pc
  /\ UNCHANGED <<args, locals, log, history>>

\* the run is stopped from outside (SIGINT, SIGKILL, power loss) before the statement at pc
\* completes; a json.dump that was under way leaves an empty or a partial file
Interrupt ==
  /\ state = "running"
  /\ state' = "interrupted"
  /\ status' = 130
  /\ \E t \in Torn :
       /\ bak' = IF pc = "bak_dump" THEN [bak EXCEPT ![fi] = t] ELSE bak
       /\ disk' = IF pc = "save_dump" THEN [disk EXCEPT ![fi] = t] ELSE disk
  /\ UNCHANGED <<args, pc, locals, log, failure, history>>

\* the script is started again over the same directory
Rerun ==
  /\ state # "running"
  /\ runs < MaxRuns
  /\ runs' = runs + 1
  /\ state' = "running" /\ status' = -1 /\ pc' = "main"
  /\ fi' = 0 /\ qi' = 0 /\ data' = NoDoc /\ query_text' = ""
  /\ local_response' = <<>> /\ global_response' = <<>>
  /\ log' = <<>> /\ failure' = NoFailure
  /\ pre' = disk /\ prebak' = bak
  /\ UNCHANGED <<args, disk, bak, orig>>

Next ==
  \/ Main
  \/ NextFile
  \/ Load
  \/ BakOpen
  \/ BakDump
  \/ CountQueries
  \/ NextQuery
  \/ GetQuery
  \/ RunLocal
  \/ RunGlobal
  \/ AppendBoth
  \/ SaveOpen
  \/ SaveDump
  \/ FsError
  \/ Interrupt

Spec == Init /\ [][Next]_vars

NextRerun == Next \/ Rerun

SpecRerun == Init /\ [][NextRerun]_vars

\* ------------------------------------------------------------- properties
Range(s) == {s[k] : k \in 1..Len(s)}

IsPrefix(a, b) == Len(a) <= Len(b) /\ SubSeq(b, 1, Len(a)) = a

\* pc values at which `data` is bound
Loaded == {"bak_open", "bak_dump", "count", "for_query", "get_query", "local", "global",
           "append", "save_open", "save_dump"}

\* pc values after the backup was written (line 35 completed)
AfterBackup == Loaded \ {"bak_open", "bak_dump"}

\* process_query_file returned for file f in this run
FileDone(f) == f >= 1 /\ (f < fi \/ (f = fi /\ pc = "for_file"))

\* rs is old followed by one graphrag_local and one graphrag_global record
TwoAppended(rs, old) ==
  /\ Len(rs) = Len(old) + 2
  /\ SubSeq(rs, 1, Len(old)) = old
  /\ rs[Len(old) + 1].mode = "graphrag_local"
  /\ rs[Len(old) + 2].mode = "graphrag_global"

\* C1: once process_query_file has processed a file, every query entry's response list on
\* disk is the pre-run list followed by a graphrag_local and a graphrag_global record; and
\* while a file is being processed the pre-run list stays a prefix of the list in memory,
\* which holds at most the two new records more (nothing is removed or reordered).
C1_AppendsExactlyTwo ==
  \A f \in 1..nfiles :
    /\ FileDone(f) =>
         /\ disk[f].kind = "json"
         /\ Len(disk[f].doc.queries) = Len(pre[f].doc.queries)
         /\ \A i \in 1..Len(pre[f].doc.queries) :
              TwoAppended(disk[f].doc.queries[i].responses, pre[f].doc.queries[i].responses)
    /\ (f = fi /\ pc \in Loaded) =>
         /\ Len(data.queries) = Len(pre[f].doc.queries)
         /\ \A i \in 1..Len(pre[f].doc.queries) :
              /\ IsPrefix(pre[f].doc.queries[i].responses, data.queries[i].responses)
              /\ Len(data.queries[i].responses) \in
                   {Len(pre[f].doc.queries[i].responses), Len(pre[f].doc.queries[i].responses) + 2}

C1_Witness ==
  /\ state = "exited" /\ status = 0
  /\ \E f \in 1..nfiles :
       /\ Len(pre[f].doc.queries) = 2
       /\ pre[f].doc.queries[1].responses = <<OldRecord>>
       /\ Len(disk[f].doc.queries[1].responses) = 3

\* C2 (as stated): once the backup of a file has been written, <file>.json.bak is
\* byte-identical to the file as it was before the run.
C2_BackupByteIdentical ==
  \A f \in 1..nfiles :
    (FileDone(f) \/ (f = fi /\ pc \in AfterBackup)) => bak[f] = pre[f]

\* C2 (amended): the backup holds the same JSON document as the pre-run file, re-serialised
\* with indent 2 (byte-identical when the file already had that layout), and until it has
\* been written neither the file on disk nor the loaded document has been changed.
C2_BackupSameDocument ==
  \A f \in 1..nfiles :
    IF FileDone(f) \/ (f = fi /\ pc \in AfterBackup)
    THEN /\ pre[f].kind = "json"
         /\ bak[f].kind = "json" /\ bak[f].fmt = "indent2"
         /\ bak[f].doc = pre[f].doc
         /\ pre[f].fmt = "indent2" => bak[f] = pre[f]
    ELSE /\ disk[f] = pre[f]
         /\ (f = fi /\ pc \in Loaded) => data = pre[f].doc

C2_Witness ==
  /\ pc = "save_dump" /\ state = "running"
  /\ pre[fi].fmt = "compact"
  /\ disk[fi] = EmptyFile
  /\ bak[fi].doc = pre[fi].doc

\* the answer the script holds for the k-th logged invocation: the local variable while the
\* query is in flight, then the record appended to the document, then the record on disk
AnswerOf(k) ==
  LET f == log[k].file
      i == log[k].idx
      isLocal == log[k].cmd[6] = "local"
      off == Len(pre[f].doc.queries[i].responses) + (IF isLocal THEN 1 ELSE 2)
  IN IF f = fi /\ i = qi /\ pc \in {"global", "append"}
     THEN (IF isLocal THEN local_response ELSE global_response)
     ELSE IF f = fi /\ pc \in Loaded
          THEN data.queries[i].responses[off].answer
          ELSE disk[f].doc.queries[i].responses[off].answer

RECURSIVE TotalQueries(_)
TotalQueries(n) == IF n = 0 THEN 0 ELSE Len(pre[n].doc.queries) + TotalQueries(n - 1)

\* C3: a failed invocation of the tool (non-zero exit) never stops the run: no uncaught
\* CalledProcessError exists, the answer kept for that invocation is a non-empty string
\* containing "Error", a failed local search is followed by the global search of the same
\* query, and a run that reaches the end has made both invocations of every query of every
\* file.
C3_ToolFailureBecomesErrorAnswer ==
  /\ failure.kind # "CalledProcessError"
  /\ \A k \in 1..Len(log) :
       log[k].rc # 0 =>
         /\ Len(AnswerOf(k)) > 0
         /\ "Error" \in Range(AnswerOf(k))
         /\ (k = Len(log) /\ state = "running" /\ log[k].cmd[6] = "local") => pc = "global"
  /\ (state = "exited" /\ status = 0) => Len(log) = 2 * TotalQueries(nfiles)

C3_Witness ==
  /\ state = "exited" /\ status = 0
  /\ nfiles = 2
  /\ Len(log) = 4
  /\ log[1].rc # 0 /\ log[2].rc = 0 /\ log[3].rc = 0 /\ log[4].rc # 0
  /\ log[1].file = 1 /\ log[3].file = 2
  /\ "Error" \in Range(disk[1].doc.queries[1].responses[2].answer)

RECURSIVE ExpectedFile(_, _)
\* the invocations process_query_file makes for the first n entries of file f
ExpectedFile(f, n) ==
  IF n = 0 THEN <<>>
  ELSE ExpectedFile(f, n - 1) \o
       << [file |-> f, idx |-> n,
           cmd |-> <<"graphrag", "query", "--root", root_dir, "--method", "local",
                     "--query", pre[f].doc.queries[n].query>>],
          [file |-> f, idx |-> n,
           cmd |-> <<"graphrag", "query", "--root", root_dir, "--method", "global",
                     "--query", pre[f].doc.queries[n].query>>] >>

RECURSIVE ExpectedRun(_)
ExpectedRun(n) == IF n = 0 THEN <<>> ELSE ExpectedRun(n - 1) \o ExpectedFile(n, Len(pre[n].doc.queries))

Calls == [k \in 1..Len(log) |-> [file |-> log[k].file, idx |-> log[k].idx, cmd |-> log[k].cmd]]

\* number of invocations made when the program stands at pc in entry qi of the current file
CallsInFile ==
  IF pc \in {"get_query", "local"} THEN 2 * (qi - 1)
  ELSE IF pc = "global" THEN 2 * (qi - 1) + 1
  ELSE IF pc \in {"append", "save_open", "save_dump", "for_query"} THEN 2 * qi
  ELSE IF pc = "for_file" /\ fi >= 1 THEN 2 * Len(pre[fi].doc.queries)
  ELSE 0

\* C4: the invocations made so far are exactly, in order, for every query entry reached,
\* one with --method local then one with --method global, both with --root root_dir and
\* --query the entry's query text; a run that completes has made 2 x (number of entries).
C4_TwoInvocationsPerQuery ==
  /\ IsPrefix(Calls, ExpectedRun(nfiles))
  /\ Len(log) = (IF fi >= 1 THEN Len(ExpectedRun(fi - 1)) ELSE 0) + CallsInFile
  /\ (state = "exited" /\ status = 0) =>
       /\ Calls = ExpectedRun(nfiles)
       /\ Len(log) = 2 * TotalQueries(nfiles)

C4_Witness ==
  /\ state = "exited" /\ status = 0
  /\ nfiles = 1 /\ Len(pre[1].doc.queries) = 1
  /\ Len(log) = 2
  /\ log[1].cmd = <<"graphrag", "query", "--root", "rootdir", "--method", "local", "--query", "qa">>
  /\ log[2].cmd = <<"graphrag", "query", "--root", "rootdir", "--method", "global", "--query", "qa">>

\* C5: started without the root directory argument, or over a directory without *.json
\* files, the script does nothing but exit with status 1: no file and no backup is
\* created or written and the tool is not invoked.
C5_UsageErrorHasNoEffect ==
  (~hasRoot \/ nfiles = 0) =>
    /\ disk = pre /\ bak = prebak /\ log = <<>>
    /\ pc = "main"
    /\ state # "crashed"
    /\ state = "exited" => status = 1

C5_Witness ==
  /\ state = "exited" /\ status = 1
  /\ hasRoot /\ nfiles = 0

\* number of entries of the current file whose save (line 68) has completed in this run
Completed ==
  IF pc = "for_query" THEN qi
  ELSE IF pc \in {"get_query", "local", "global", "append", "save_open", "save_dump"} THEN qi - 1
  ELSE IF pc = "for_file" /\ fi >= 1 THEN Len(pre[fi].doc.queries)
  ELSE 0

\* file content c holds this run's two new records of entry i
HasResults(c, p, i) ==
  /\ c.kind = "json"
  /\ i <= Len(c.doc.queries)
  /\ TwoAppended(c.doc.queries[i].responses, p.doc.queries[i].responses)

\* C6 (as stated): when the run is interrupted after k entries of the current file have
\* completed, the original path holds the two new records of each of those k entries.
C6_InterruptKeepsCompleted ==
  state = "interrupted" =>
    \A i \in 1..Completed : HasResults(disk[fi], pre[fi], i)

\* C7 (as stated): an uncaught failure ends the run at that point: later files are not
\* backed up, queried or written, and the files and queries completed before the failure
\* keep their persisted results.
C7_FailureStopsRunKeepsResults ==
  state = "crashed" =>
    /\ \A f \in 1..nfiles :
         /\ f > fi => (disk[f] = pre[f] /\ bak[f] = prebak[f])
         /\ f < fi => \A i \in 1..Len(pre[f].doc.queries) : HasResults(disk[f], pre[f], i)
    /\ \A k \in 1..Len(log) : log[k].file <= fi
    /\ \A i \in 1..Completed : HasResults(disk[fi], pre[fi], i)

\* C8 (as stated): over any sequence of runs, once a file differs from what it was before
\* the first run, its backup holds the document as it was before the first run.
C8_BackupHoldsFirstOriginal ==
  \A f \in 1..nfiles :
    disk[f] # orig[f] => (bak[f].kind = "json" /\ bak[f].doc = orig[f].doc)

\* C9: whenever the original path holds a complete document, that document is the pre-run
\* document in which the first k entries, for some k, have this run's two new records
\* (graphrag_local then graphrag_global) and the other entries are as before the run.
C9_SavedPrefixOfPairs ==
  \A f \in 1..nfiles :
    disk[f].kind = "json" =>
      /\ pre[f].kind = "json"
      /\ disk[f].doc.keys = pre[f].doc.keys
      /\ Len(disk[f].doc.queries) = Len(pre[f].doc.queries)
      /\ \E k \in 0..Len(pre[f].doc.queries) :
           \A i \in 1..Len(pre[f].doc.queries) :
             /\ disk[f].doc.queries[i].query = pre[f].doc.queries[i].query
             /\ IF i <= k
                THEN TwoAppended(disk[f].doc.queries[i].responses, pre[f].doc.queries[i].responses)
                ELSE disk[f].doc.queries[i].responses = pre[f].doc.queries[i].responses

C9_Witness ==
  /\ state = "running" /\ pc = "global" /\ qi = 2
  /\ disk[fi].kind = "json"
  /\ Len(disk[fi].doc.queries[1].responses) = Len(pre[fi].doc.queries[1].responses) + 2
  /\ disk[fi].doc.queries[2].responses = pre[fi].doc.queries[2].responses
  /\ local_response # <<>>

\* C10: a file that does not parse is left as it was, its backup is neither created nor
\* overwritten, and the tool is not invoked for it.
C10_UnparsableFileUntouched ==
  \A f \in 1..nfiles :
    pre[f].kind # "json" =>
      /\ disk[f] = pre[f]
      /\ bak[f] = prebak[f]
      /\ \A k \in 1..Len(log) : log[k].file # f

C10_Witness ==
  /\ state = "crashed" /\ failure.kind = "JSONDecodeError"
  /\ fi = 2 /\ pre[2] = Garbage
  /\ prebak[2] = StaleBak /\ bak[2] = StaleBak
  /\ Len(log) = 2

====
